---- MODULE Spec2Model ----
(***************************************************************************)
(* Model of notebooks/orthogonal_sampler.py and notebooks/helpers.py:      *)
(* the orthogonal-array Latin hypercube sampler, the Sobol sampler's       *)
(* argument check, Monte_carlo, and the queue-draining workers.            *)
(*                                                                         *)
(* Numbers.  Coordinates are exact rationals: a sample is a record         *)
(* [pts |-> sequence of <<xnum, ynum>>, den |-> common denominator].       *)
(* The bounds X_LB .. Y_UP are in hundredths, so an area is in 1/10000.    *)
(* Python indexes from 0, the model from 1: column c of the code is column *)
(* c+1 here and position p of the code is position p+1 here.               *)
(***************************************************************************)
EXTENDS Integers, Sequences, FiniteSets, TLC

VARIABLES
    entry,            \* which function was called from outside
    pc,               \* control location of the call
    err,              \* the exception that ended the call, or "none"
    sampler,          \* Monte_carlo's sampler argument
    sample_size,      \* Monte_carlo's sample_size argument
    max_iter,         \* Monte_carlo's max_iter argument
    n_samples,        \* the sampler's n_samples argument
    lows, highs,      \* the sampler's bounds arguments
    s, c, k,          \* orthogonal_sampler_2d: levels, column and level loops
    lh,               \* orthogonal_sampler_2d: the rank array, then the sample
    random_numbers,   \* the sample a sampler returned
    i,                \* Monte_carlo: loop index
    samples_in_set,   \* Monte_carlo: counter
    js,               \* history: the iteration counts f_c_cpp returned
    classified,       \* history: the positions of random_numbers classified
    ranks,            \* history: the rank array as it was before the jitter
    Approx_area,      \* Monte_carlo's return value <<num, den>>, or <<>>
    kind,             \* which worker function the sweep runs
    cfg,              \* the workers' fixed arguments
    nworkers,         \* number of workers launched
    q0,               \* history: the queue as populated
    q,                \* the shared task queue
    d,                \* the shared result store
    wpc,              \* each worker's control location
    wtask,            \* each worker's dequeued task
    taken             \* history: per task id, the workers that dequeued it

mcvars == <<entry, pc, err, sampler, sample_size, max_iter, n_samples,
            lows, highs, s, c, k,
            lh, random_numbers, i, samples_in_set, js, classified, ranks,
            Approx_area>>
schedvars == <<kind, cfg, nworkers, q0, q, d, wpc, wtask, taken>>
vars == <<mcvars, schedvars>>

(***************************************************************************)
(* Bounds of the model and constants of the program.                       *)
(***************************************************************************)
MaxN == 4          \* orthogonal_sampler is called with n_samples <= MaxN
SobolMaxN == 9     \* scrambled_sobol_sampler is called with n_samples <= SobolMaxN
MaxSize == 3       \* Monte_carlo is called with sample_size <= MaxSize
NegN == 1          \* sizes range down to -NegN
MaxIter == 2       \* Monte_carlo is called with max_iter in 0..MaxIter
OffDen == 2        \* uniform draws are the multiples of 1/OffDen in [0,1)
MaxTasks == 2      \* the queue is populated with at most MaxTasks tasks
MaxWorkers == 2    \* at most MaxWorkers workers are launched

X_LB == -200
X_UP == 100
Y_LB == -112
Y_UP == 112

Offsets == 0..(OffDen - 1)      \* numerators of the draws of rng.uniform
\* the bounds the samplers are called with (helpers.py 87)
BoundsArgs == {<<<<X_LB, Y_LB>>, <<X_UP, Y_UP>>>>}
NoSample == [pts |-> <<>>, den |-> 1]

(***************************************************************************)
(* orthogonal_sampler_2d                                                   *)
(***************************************************************************)
\* int(np.ceil(np.sqrt(n))) for n >= 0
CeilSqrt(n) ==
    CHOOSE r \in 0..n : r * r >= n /\ (r = 0 \/ (r - 1) * (r - 1) < n)

\* np.array(list(product(range(1, s+1), repeat=2))): row-major pairs of levels
OACell(sv, p) == <<((p - 1) \div sv) + 1, ((p - 1) % sv) + 1>>

OA(sv) == [p \in 1..(sv * sv) |-> OACell(sv, p)]

\* np.where(oa[:,c] == k)[0]: the positions whose column c holds k, ascending
RECURSIVE IdxsFrom(_, _, _, _)
IdxsFrom(sv, cv, kv, p) ==
    IF p > sv * sv THEN <<>>
    ELSE IF OACell(sv, p)[cv] = kv THEN <<p>> \o IdxsFrom(sv, cv, kv, p + 1)
    ELSE IdxsFrom(sv, cv, kv, p + 1)

Idxs(sv, cv, kv) == IdxsFrom(sv, cv, kv, 1)

\* variant: the block offset (k - 1)*s left out
NewColMissingOffset(sv, kv, cnt) == [t \in 1..cnt |-> t]

\* new_col[i-1] = (k - 1)*s + i for i in 1..len(idxs)
NewCol(sv, kv, cnt) == [t \in 1..cnt |-> (kv - 1) * sv + t]

\* the outcomes of rng.shuffle on an array of length cnt
Perms(cnt) ==
    {f \in [1..cnt -> 1..cnt] : \A a, b \in 1..cnt : f[a] = f[b] => a = b}

\* lh[idxs[0], c] = new_col
AssignColumn(arr, idxs, cv, col) ==
    [p \in DOMAIN arr |->
        IF \E t \in DOMAIN idxs : idxs[t] = p
        THEN [arr[p] EXCEPT ![cv] = col[CHOOSE t \in DOMAIN idxs : idxs[t] = p]]
        ELSE arr[p]]

\* np.max(lh): the maximum over the whole array, both columns
MaxOf(S) == CHOOSE m \in S : \A x \in S : x <= m
NpMax(arr) == MaxOf({arr[p][cv] : p \in DOMAIN arr, cv \in 1..2})

\* variant: the offset added instead of subtracted
JitterAdd(arr, o) ==
    [pts |-> [p \in DOMAIN arr |->
                 <<arr[p][1] * OffDen + o[1], arr[p][2] * OffDen + o[2]>>],
     den |-> NpMax(arr) * OffDen]

\* (lh - samples)/np.max(lh), elementwise.  The draws are taken to be
\* samples[p][cv] = o[cv]/OffDen: one offset per axis, the same in every row,
\* which keeps the outcomes enumerable; each element depends on its own rank
\* and offset and on np.max(lh) only.
Jitter(arr, o) ==
    [pts |-> [p \in DOMAIN arr |->
                 <<arr[p][1] * OffDen - o[1], arr[p][2] * OffDen - o[2]>>],
     den |-> NpMax(arr) * OffDen]

\* variant: the lower bound not added back
RescaleNoShift(smp, lo, hi) ==
    [pts |-> [p \in DOMAIN smp.pts |->
                 <<(hi[1] - lo[1]) * smp.pts[p][1],
                   (hi[2] - lo[2]) * smp.pts[p][2]>>],
     den |-> smp.den]

\* orthogonal_sampler: (highs[c] - lows[c])*sample[:, c] + lows[c]
Rescale(smp, lo, hi) ==
    [pts |-> [p \in DOMAIN smp.pts |->
                 <<(hi[1] - lo[1]) * smp.pts[p][1] + lo[1] * smp.den,
                   (hi[2] - lo[2]) * smp.pts[p][2] + lo[2] * smp.den>>],
     den |-> smp.den]

(***************************************************************************)
(* scrambled_sobol_sampler                                                 *)
(***************************************************************************)
\* floor of log2(n) for n >= 1
RECURSIVE FloorLog2(_)
FloorLog2(n) == IF n <= 1 THEN 0 ELSE 1 + FloorLog2(n \div 2)

RECURSIVE Pow2(_)
Pow2(e) == IF e = 0 THEN 1 ELSE 2 * Pow2(e - 1)

\* variant: the power-of-two check left out
Log2NotIntegerNoCheck(n) == FALSE

\* np.mod(np.log2(n), 1) != 0: log2 of n <= 0 is -inf or nan, whose remainder
\* is nan, and nan != 0 is true
Log2NotInteger(n) == n <= 0 \/ Pow2(FloorLog2(n)) # n

\* sampler.random_base2(int(m)): 2^int(m) points; qmc.scale keeps the count
SobolSample(n, pt) ==
    [pts |-> [p \in 1..Pow2(FloorLog2(n)) |-> pt], den |-> OffDen]

\* rng.uniform(low, high, size=(n, 2)): n points of [low, high)
UniformSample(n, pt) == [pts |-> [p \in 1..n |-> pt], den |-> OffDen]

\* the points a library sampler may draw: low + o/OffDen*(high - low), per axis
GridPoints(lo, hi) ==
    {<<lo[1] * OffDen + o[1] * (hi[1] - lo[1]),
       lo[2] * OffDen + o[2] * (hi[2] - lo[2])>> : o \in Offsets \X Offsets}

(***************************************************************************)
(* Actions of the samplers.  A call ends at pc = "done" (returned) or at   *)
(* pc = "error" (an exception left the function).                          *)
(***************************************************************************)
Raise(e) == pc' = "error" /\ err' = e

\* helpers.py 39-56, called from outside
SobolCall ==
    /\ pc = "sobol_call"
    /\ IF Log2NotInteger(n_samples)
       THEN /\ Raise("Exception")
            /\ UNCHANGED random_numbers
       ELSE /\ \E pt \in GridPoints(lows, highs) :
                   random_numbers' = SobolSample(n_samples, pt)
            /\ pc' = "done"
            /\ UNCHANGED err
    /\ UNCHANGED <<entry, sampler, sample_size, max_iter, n_samples, lows, highs,
                   s, c, k, lh, i, samples_in_set, js, classified, ranks,
                   Approx_area, schedvars>>

\* orthogonal_sampler.py 5-10: s, oa, lh
OAStart ==
    /\ pc = "oa_call"
    /\ IF n_samples < 0
       THEN \* np.sqrt gives nan and int(nan) raises
            /\ Raise("ValueError")
            /\ UNCHANGED <<s, c, k, lh>>
       ELSE IF CeilSqrt(n_samples) = 0
       THEN \* oa is an empty 1-d array: oa.shape[1] raises
            /\ Raise("IndexError")
            /\ s' = 0
            /\ UNCHANGED <<c, k, lh>>
       ELSE /\ s' = CeilSqrt(n_samples)
            /\ lh' = [p \in DOMAIN OA(s') |-> <<0, 0>>]
            /\ c' = 1
            /\ k' = 1
            /\ pc' = "oa_shuffle"
            /\ UNCHANGED err
    /\ UNCHANGED <<entry, sampler, sample_size, max_iter, n_samples, lows, highs,
                   random_numbers, i, samples_in_set, js, classified, ranks,
                   Approx_area, schedvars>>

\* orthogonal_sampler.py 12-23: one pass of the inner loop body
OAShuffle ==
    /\ pc = "oa_shuffle"
    /\ LET idxs == Idxs(s, c, k)
           new_col == NewCol(s, k, Len(idxs))
       IN \E perm \in Perms(Len(idxs)) :
              lh' = AssignColumn(lh, idxs, c,
                                 [t \in 1..Len(idxs) |-> new_col[perm[t]]])
    /\ IF k < s THEN k' = k + 1 /\ c' = c /\ pc' = pc
       ELSE IF c < 2 THEN k' = 1 /\ c' = c + 1 /\ pc' = pc
       ELSE k' = k /\ c' = c /\ pc' = "oa_jitter"
    /\ UNCHANGED <<entry, err, sampler, sample_size, max_iter, n_samples, lows,
                   highs, s, random_numbers, i, samples_in_set, js, classified,
                   ranks, Approx_area, schedvars>>

\* orthogonal_sampler.py 25-28 and helpers.py 69-72: the draws, the
\* normalisation, the return to orthogonal_sampler, which rescales and returns
OAJitter ==
    /\ pc = "oa_jitter"
    /\ \E o \in Offsets \X Offsets : lh' = Jitter(lh, o)
    /\ ranks' = lh
    /\ random_numbers' = Rescale(lh', lows, highs)
    /\ pc' = IF entry = "Monte_carlo" THEN "mc_loop" ELSE "done"
    /\ UNCHANGED <<entry, err, sampler, sample_size, max_iter, n_samples, lows,
                   highs, s, c, k, i, samples_in_set, js, classified,
                   Approx_area, schedvars>>

(***************************************************************************)
(* Monte_carlo                                                             *)
(***************************************************************************)
Samplers == {"uniform_sampler", "scrambled_sobol_sampler", "orthogonal_sampler"}

\* f_c_cpp(c, max_iter, 2) returns (z, j) with j in 0..max_iter
ClassifierReturns(mi) == 0..mi

\* variant: every classified point counted
CountAlways(count, j, mi) == count + 1

\* helpers.py 95-96: if (j == max_iter): samples_in_set += 1
Count(count, j, mi) == IF j = mi THEN count + 1 ELSE count

\* helpers.py 98-99: (X_UP - X_LB)*(Y_UP - Y_LB)*(samples_in_set/sample_size),
\* as the fraction <<numerator, denominator>>
ApproxArea(count, n) == <<(X_UP - X_LB) * (Y_UP - Y_LB) * count, n>>

\* helpers.py 89: random_numbers[i], a position of the model's sequence
PointAt(iv) == iv + 1

\* variant: the loop runs over the whole sample
LoopRangeWholeSample(n, smp) == Len(smp.pts)

\* helpers.py 88: range(sample_size)
LoopRange(n, smp) == IF n > 0 THEN n ELSE 0

MCUnchanged == UNCHANGED <<entry, sampler, sample_size, max_iter, n_samples,
                           lows, highs, s, c, k, lh, ranks, schedvars>>

\* helpers.py 87 with sampler = uniform_sampler (helpers.py 21)
MCCallUniform ==
    /\ pc = "mc_call" /\ sampler = "uniform_sampler"
    /\ IF n_samples < 0
       THEN \* a negative dimension
            /\ Raise("ValueError")
            /\ UNCHANGED random_numbers
       ELSE /\ \E pt \in GridPoints(lows, highs) :
                   random_numbers' = UniformSample(n_samples, pt)
            /\ pc' = "mc_loop"
            /\ UNCHANGED err
    /\ UNCHANGED <<i, samples_in_set, js, classified, Approx_area>>
    /\ MCUnchanged

\* helpers.py 87 with sampler = scrambled_sobol_sampler (helpers.py 47-56)
MCCallSobol ==
    /\ pc = "mc_call" /\ sampler = "scrambled_sobol_sampler"
    /\ IF Log2NotInteger(n_samples)
       THEN /\ Raise("Exception")
            /\ UNCHANGED random_numbers
       ELSE /\ \E pt \in GridPoints(lows, highs) :
                   random_numbers' = SobolSample(n_samples, pt)
            /\ pc' = "mc_loop"
            /\ UNCHANGED err
    /\ UNCHANGED <<i, samples_in_set, js, classified, Approx_area>>
    /\ MCUnchanged

\* helpers.py 87 with sampler = orthogonal_sampler: control enters helpers.py 68
MCCallOrthogonal ==
    /\ pc = "mc_call" /\ sampler = "orthogonal_sampler"
    /\ pc' = "oa_call"
    /\ UNCHANGED <<err, random_numbers, i, samples_in_set, js, classified,
                   Approx_area>>
    /\ MCUnchanged

\* helpers.py 88-96: one pass of the loop body
MCLoop ==
    /\ pc = "mc_loop"
    /\ i < LoopRange(sample_size, random_numbers)
    /\ IF i + 1 > Len(random_numbers.pts)
       THEN \* random_numbers[i] is out of range
            /\ Raise("IndexError")
            /\ UNCHANGED <<i, samples_in_set, js, classified>>
       ELSE /\ \E j \in ClassifierReturns(max_iter) :
                   /\ js' = Append(js, j)
                   /\ classified' = Append(classified, PointAt(i))
                   /\ samples_in_set' = Count(samples_in_set, j, max_iter)
            /\ i' = i + 1
            /\ UNCHANGED <<pc, err>>
    /\ UNCHANGED <<random_numbers, Approx_area>>
    /\ MCUnchanged

\* helpers.py 98-101: the loop is over; the fraction, the area, the return
MCFinish ==
    /\ pc = "mc_loop"
    /\ i >= LoopRange(sample_size, random_numbers)
    /\ IF sample_size = 0
       THEN /\ Raise("ZeroDivisionError")
            /\ UNCHANGED Approx_area
       ELSE /\ Approx_area' = ApproxArea(samples_in_set, sample_size)
            /\ pc' = "done"
            /\ UNCHANGED err
    /\ UNCHANGED <<random_numbers, i, samples_in_set, js, classified>>
    /\ MCUnchanged

(***************************************************************************)
(* The workers: I_iter_worker, S_iter_worker, N_iter_worker.  A task is    *)
(* the queued tuple <<a, b>> and, as history, its position id in the queue *)
(* as populated.  A result is the appended area and, as history, the id of *)
(* the task it was computed for.                                           *)
(***************************************************************************)
Kinds == {"I_iter_worker", "S_iter_worker", "N_iter_worker"}
ParamValues == {1, 3}      \* first components: max_iter, sample_size, n_runs
SlotValues == {0, 1}       \* second components: the index i
\* the tuples a caller enqueues: a parameter value with its index
TaskTuples == {<<1, 0>>, <<3, 1>>}
SchedSamplers == {"scrambled_sobol_sampler"}

\* Monte_carlo's arguments in each worker: helpers.py 116-119, 134-137, 152-155
WorkerArgs(kd, task, cf) ==
    CASE kd = "I_iter_worker" -> [cf EXCEPT !.max_iter = task.a]
      [] kd = "S_iter_worker" -> [cf EXCEPT !.sample_size = task.a]
      [] kd = "N_iter_worker" -> cf

\* variant: N_iter_worker appending to d[i]
TaskKeyAlwaysSlot(kd, task) == task.b

\* the entry a result goes to: d[i] (helpers.py 120, 138), d[n_runs] (156)
TaskKey(kd, task) == IF kd = "N_iter_worker" THEN task.a ELSE task.b

\* whether Monte_carlo raises, and what it may return otherwise (see the
\* actions of Monte_carlo above; MCSummary states the agreement)
MonteCarloRaises(args) ==
    \/ args.sample_size = 0
    \/ args.sampler = "uniform_sampler" /\ args.sample_size < 0
    \/ args.sampler = "orthogonal_sampler" /\ args.sample_size < 0
    \/ args.sampler = "scrambled_sobol_sampler" /\ Log2NotInteger(args.sample_size)

MonteCarloReturns(args) ==
    {ApproxArea(cnt, args.sample_size) :
        cnt \in IF args.max_iter = 0 THEN {args.sample_size}
                ELSE 0..args.sample_size}

\* variant: the worker returns after its first task
AfterAppendExit == "done"

\* while True: after the append control returns to get_nowait
AfterAppend == "get"

\* variant: the task of a failed computation put back
QueueAfterRaiseRequeue(qq, task) == Append(qq, task)

\* Monte_carlo is called outside the try: a raise leaves the worker function
\* with the task neither requeued nor answered
QueueAfterRaise(qq, task) == qq

SchedUnchanged == UNCHANGED <<mcvars, kind, cfg, nworkers, q0>>

\* q.get_nowait() returns a task: helpers.py 112, 130, 148
Dequeue(w) ==
    /\ w <= nworkers
    /\ wpc[w] = "get"
    /\ q # <<>>
    /\ wtask' = [wtask EXCEPT ![w] = Head(q)]
    /\ q' = Tail(q)
    /\ taken' = [taken EXCEPT ![Head(q).id] = Append(@, w)]
    /\ wpc' = [wpc EXCEPT ![w] = "run"]
    /\ UNCHANGED d
    /\ SchedUnchanged

\* q.get_nowait() raises queue.Empty: break (helpers.py 113-114, 131-132, 149-150)
Empty(w) ==
    /\ w <= nworkers
    /\ wpc[w] = "get"
    /\ q = <<>>
    /\ wpc' = [wpc EXCEPT ![w] = "done"]
    /\ UNCHANGED <<q, d, wtask, taken>>
    /\ SchedUnchanged

\* Monte_carlo returns and the result is appended: helpers.py 116-120, 134-138,
\* 152-156
RunTask(w) ==
    /\ w <= nworkers
    /\ wpc[w] = "run"
    /\ ~MonteCarloRaises(WorkerArgs(kind, wtask[w], cfg))
    /\ \E area \in MonteCarloReturns(WorkerArgs(kind, wtask[w], cfg)) :
           d' = [d EXCEPT ![TaskKey(kind, wtask[w])] =
                              Append(@, [area |-> area, id |-> wtask[w].id])]
    /\ wpc' = [wpc EXCEPT ![w] = AfterAppend]
    /\ UNCHANGED <<q, wtask, taken>>
    /\ SchedUnchanged

\* Monte_carlo raises: the exception leaves the worker function
FailTask(w) ==
    /\ w <= nworkers
    /\ wpc[w] = "run"
    /\ MonteCarloRaises(WorkerArgs(kind, wtask[w], cfg))
    /\ q' = QueueAfterRaise(q, wtask[w])
    /\ wpc' = [wpc EXCEPT ![w] = "failed"]
    /\ UNCHANGED <<d, wtask, taken>>
    /\ SchedUnchanged

Worker(w) == Dequeue(w) \/ Empty(w) \/ RunTask(w) \/ FailTask(w)

\* the scheduler's variables while no sweep runs
SchedIdle ==
    /\ kind = "none"
    /\ cfg = [sample_size |-> 0, max_iter |-> 0, sampler |-> "none"]
    /\ nworkers = 0
    /\ q0 = <<>>
    /\ q = <<>>
    /\ d = <<>>
    /\ wpc = <<>>
    /\ wtask = <<>>
    /\ taken = <<>>

\* the locals of a call before it assigns them
LocalsFresh ==
    /\ err = "none"
    /\ s = 0 /\ c = 0 /\ k = 0
    /\ lh = <<>>
    /\ random_numbers = NoSample
    /\ i = 0
    /\ samples_in_set = 0
    /\ js = <<>>
    /\ classified = <<>>
    /\ ranks = <<>>
    /\ Approx_area = <<>>

\* a caller invokes orthogonal_sampler or scrambled_sobol_sampler
InitSampler ==
    /\ entry \in {"orthogonal_sampler", "scrambled_sobol_sampler"}
    /\ pc = IF entry = "orthogonal_sampler" THEN "oa_call" ELSE "sobol_call"
    /\ sampler = "none" /\ sample_size = 0 /\ max_iter = 0
    /\ n_samples \in IF entry = "orthogonal_sampler"
                     THEN (0 - NegN)..MaxN ELSE (0 - NegN)..SobolMaxN
    /\ \E b \in BoundsArgs : lows = b[1] /\ highs = b[2]
    /\ LocalsFresh
    /\ SchedIdle

\* a caller invokes Monte_carlo
InitMC ==
    /\ entry = "Monte_carlo"
    /\ pc = "mc_call"
    /\ sampler \in Samplers
    /\ sample_size \in (0 - NegN)..MaxSize
    /\ max_iter \in 0..MaxIter
    /\ n_samples = sample_size
    /\ lows = <<X_LB, Y_LB>> /\ highs = <<X_UP, Y_UP>>
    /\ LocalsFresh
    /\ SchedIdle

\* the queues a caller may populate: at most MaxTasks tuples, in any order
RECURSIVE TupleSeqs(_)
TupleSeqs(n) ==
    IF n = 0 THEN {<<>>}
    ELSE LET shorter == TupleSeqs(n - 1)
         IN shorter \cup
            {Append(sq, tp) :
                sq \in {x \in shorter : Len(x) = n - 1}, tp \in TaskTuples}

\* a caller populates the queue and the result store and starts the workers
InitSched ==
    /\ entry = "sweep" /\ pc = "idle"
    /\ sampler = "none" /\ sample_size = 0 /\ max_iter = 0 /\ n_samples = 0
    /\ lows = <<X_LB, Y_LB>> /\ highs = <<X_UP, Y_UP>>
    /\ LocalsFresh
    /\ kind \in Kinds
    /\ \E smp \in SchedSamplers,
          ss \in IF kind = "S_iter_worker" THEN {1} ELSE ParamValues :
           cfg = [sample_size |-> ss, max_iter |-> MaxIter, sampler |-> smp]
    /\ nworkers \in 1..MaxWorkers
    /\ \E sq \in TupleSeqs(MaxTasks) :
           q0 = [t \in 1..Len(sq) |-> [a |-> sq[t][1], b |-> sq[t][2], id |-> t]]
    /\ q = q0
    /\ d = [key \in IF kind = "N_iter_worker" THEN ParamValues ELSE SlotValues
               |-> <<>>]
    /\ wpc = [w \in 1..nworkers |-> "get"]
    /\ wtask = [w \in 1..nworkers |-> [a |-> 0, b |-> 0, id |-> 0]]
    /\ taken = [t \in 1..Len(q0) |-> <<>>]

NextSampler == SobolCall \/ OAStart \/ OAShuffle \/ OAJitter

SpecSampler == InitSampler /\ [][NextSampler]_vars

NextMC ==
    \/ MCCallUniform \/ MCCallSobol \/ MCCallOrthogonal
    \/ OAStart \/ OAShuffle \/ OAJitter
    \/ MCLoop \/ MCFinish

SpecMC == InitMC /\ [][NextMC]_vars

NextSched == \E w \in 1..MaxWorkers : Worker(w)

SpecSched == InitSched /\ [][NextSched]_vars

\* every launched worker keeps running: a thread or process of its own
FairSched == SpecSched /\ \A w \in 1..MaxWorkers : WF_vars(Worker(w))

(***************************************************************************)
(* Properties of the samplers, checked under SpecSampler.                  *)
(***************************************************************************)
\* sv is ceil(sqrt(n)), said without CeilSqrt
IsCeilSqrt(sv, n) == sv >= 1 /\ sv * sv >= n /\ (sv - 1) * (sv - 1) < n

\* n is a power of two: positive, and every divisor above 1 is even
IsPowerOfTwo(n) == n >= 1 /\ \A dv \in 2..n : (n % dv = 0 => dv % 2 = 0)

\* C2: when orthogonal_sampler_2d has built the rank array (before the
\* jitter), for n_samples > 0, each of its 2 columns holds every integer of
\* 1..s^2 exactly once, s = ceil(sqrt(n_samples)).
C2_RanksExact ==
    (pc = "oa_jitter" /\ n_samples > 0) =>
        /\ IsCeilSqrt(s, n_samples)
        /\ Len(lh) = s * s
        /\ \A cv \in 1..2 : \A r \in 1..(s * s) :
               Cardinality({p \in 1..Len(lh) : lh[p][cv] = r}) = 1
        /\ \A cv \in 1..2 : \A p \in 1..Len(lh) : lh[p][cv] \in 1..(s * s)

\* a rank array of a size that is no perfect square, not in enumeration order
C2_Witness ==
    /\ pc = "oa_jitter" /\ n_samples = 3 /\ s = 2
    /\ lh[1] = <<2, 2>> /\ lh[2] = <<1, 4>> /\ lh[4] = <<3, 3>>

C7_SobolPowerOfTwo ==
    (entry = "scrambled_sobol_sampler" /\ pc # "sobol_call") =>
        IF IsPowerOfTwo(n_samples)
        THEN pc = "done" /\ err = "none" /\ Len(random_numbers.pts) = n_samples
        ELSE pc = "error" /\ err = "Exception" /\ random_numbers = NoSample

\* 8 points returned for n_samples = 8
C7_Witness ==
    /\ entry = "scrambled_sobol_sampler" /\ pc = "done" /\ n_samples = 8
    /\ Len(random_numbers.pts) = 8

(***************************************************************************)
(* Properties of Monte_carlo, checked under SpecMC.                        *)
(***************************************************************************)
BoxArea == (X_UP - X_LB) * (Y_UP - Y_LB)

InSetCount == Cardinality({p \in 1..Len(js) : js[p] = max_iter})

\* C4: Monte_carlo returns box area * (k / sample_size), k the number of the
\* sample_size classified points whose iteration count equals max_iter; all
\* equal gives the whole box area, none equal gives 0.
C4_AreaFormula ==
    (entry = "Monte_carlo" /\ pc = "done") =>
        /\ Len(js) = sample_size
        /\ Approx_area = <<BoxArea * InSetCount, sample_size>>
        /\ (\A p \in 1..Len(js) : js[p] = max_iter) =>
               Approx_area[1] = BoxArea * Approx_area[2]
        /\ (\A p \in 1..Len(js) : js[p] < max_iter) => Approx_area[1] = 0

\* a return with 2 of 3 points in the set
C4_Witness ==
    /\ entry = "Monte_carlo" /\ pc = "done"
    /\ sample_size = 3 /\ max_iter = 2 /\ js = <<2, 0, 2>>
    /\ Approx_area = <<134400, 3>>

\* C5 as stated: Monte_carlo with sample_size <= 0 or max_iter <= 0, and the
\* orthogonal sampler with n_samples <= 0, raise and return nothing.
C5_NonPositiveRejected ==
    (entry = "Monte_carlo" /\ (sample_size <= 0 \/ max_iter <= 0)) =>
        /\ pc # "done"
        /\ Approx_area = <<>>

MCSummary ==
    LET args == [sample_size |-> sample_size, max_iter |-> max_iter,
                 sampler |-> sampler]
    IN entry = "Monte_carlo" =>
           /\ pc = "error" => MonteCarloRaises(args)
           /\ pc = "done" => /\ ~MonteCarloRaises(args)
                             /\ Approx_area \in MonteCarloReturns(args)

(***************************************************************************)
(* Properties of the workers, checked under SpecSched and FairSched.       *)
(***************************************************************************)
Workers == 1..nworkers
TaskIds == 1..Len(q0)
AllDone == \A w \in Workers : wpc[w] = "done"
AllTerminated == \A w \in Workers : wpc[w] \in {"done", "failed"}

\* the entry of the result store a task belongs to
OwnKey(task) == IF kind = "N_iter_worker" THEN task.a ELSE task.b

\* how many results of entry key were computed for task id
ResultsFor(key, id) ==
    Cardinality({t \in 1..Len(d[key]) : d[key][t].id = id})

TotalResults ==
    LET RECURSIVE Sum(_)
        Sum(S) == IF S = {} THEN 0
                  ELSE LET x == CHOOSE x \in S : TRUE
                       IN Len(d[x]) + Sum(S \ {x})
    IN Sum(DOMAIN d)

\* C1: every task is dequeued by at most one worker and contributes at most
\* one result, to the entry of its own key and to no other; once all workers
\* have left their loops without a failure, every task was dequeued exactly
\* once, every key holds as many results as tasks were enqueued for it, and
\* the number of results is the number of tasks.
C1_ExactlyOnce ==
    /\ \A id \in TaskIds : Len(taken[id]) <= 1
    /\ \A id \in TaskIds : \A key \in DOMAIN d :
           ResultsFor(key, id) <= IF key = OwnKey(q0[id]) THEN 1 ELSE 0
    /\ AllDone =>
           /\ \A id \in TaskIds : Len(taken[id]) = 1
           /\ \A id \in TaskIds : ResultsFor(OwnKey(q0[id]), id) = 1
           /\ \A key \in DOMAIN d :
                  Len(d[key]) =
                      Cardinality({id \in TaskIds : OwnKey(q0[id]) = key})
           /\ TotalResults = Len(q0)

\* two workers have drained a queue of two tasks of one key, one task each
C1_Witness ==
    /\ AllDone /\ nworkers = 2 /\ Len(q0) = 2
    /\ taken = <<<<1>>, <<2>>>>
    /\ \E key \in DOMAIN d : Len(d[key]) = 2

\* a worker leaves its loop only from get_nowait on an empty queue, or by a
\* Monte_carlo that raises
LeavesOnlyWhenEmpty ==
    \A w \in Workers :
        (wpc[w] \in {"get", "run"} /\ wpc'[w] \notin {"get", "run"}) =>
            \/ wpc[w] = "get" /\ q = <<>> /\ wpc'[w] = "done"
            \/ /\ wpc[w] = "run" /\ wpc'[w] = "failed"
               /\ MonteCarloRaises(WorkerArgs(kind, wtask[w], cfg))

\* C8: a worker leaves its loop only when get_nowait finds the queue empty
\* (a raising Monte_carlo aside); every worker eventually terminates; and
\* the queue is empty once all workers have terminated without a failure.
C8_TerminateWhenEmpty ==
    /\ [][LeavesOnlyWhenEmpty]_vars
    /\ [](AllDone => q = <<>>)
    /\ <>AllTerminated

\* both workers have left their loops, each after a task, the queue empty
C8_Witness ==
    /\ AllDone /\ nworkers = 2 /\ Len(q0) = 2 /\ q = <<>>
    /\ taken = <<<<2>>, <<1>>>>

\* C9 as stated: after a failure no worker dequeues a task or appends a result.
C9_FailureAbortsBatch ==
    [][(\E w \in Workers : wpc[w] = "failed") => (q' = q /\ d' = d)]_vars

\* the task of a failed worker has no result and is not in the queue
FailedTaskDropped ==
    \A w \in Workers :
        wpc[w] = "failed" =>
            /\ \A key \in DOMAIN d : ResultsFor(key, wtask[w].id) = 0
            /\ \A t \in 1..Len(q) : q[t].id # wtask[w].id

\* C9 amended: a failure is not caught by the worker: it ends that worker,
\* which dequeues and appends nothing further; no result is appended for the
\* failed task and the task is not put back on the queue (the queue only
\* shrinks). The other workers are not stopped.
C9_FailureEndsWorker ==
    /\ [](FailedTaskDropped)
    /\ [][/\ \A w \in Workers :
                wpc[w] = "failed" => (wpc'[w] = "failed" /\ wtask'[w] = wtask[w])
          /\ Len(q') <= Len(q)
          /\ \A w \in Workers :
                (wpc[w] = "run" /\ wpc'[w] = "failed") => (q' = q /\ d' = d)]_vars

\* worker 1 failed on the first task; worker 2 then took the second task and
\* appended its result
C9_Witness ==
    /\ nworkers = 2 /\ Len(q0) = 2
    /\ wpc[1] = "failed" /\ wtask[1].id = 1
    /\ taken = <<<<1>>, <<2>>>>
    /\ \E key \in DOMAIN d : ResultsFor(key, 2) = 1

====
